---- MODULE Spec2Model ----
(***************************************************************************)
(* A model of the glassview backend (src-tauri/src/main.rs): the Tauri     *)
(* commands over the shared sysinfo snapshot (AppState.sys, a Mutex), the  *)
(* process actuators and the autostart inspector.                          *)
(*                                                                         *)
(* Rust Strings that the code searches, replaces or formats are modelled   *)
(* as sequences of one-character strings, so that replace / ends_with /    *)
(* contains / to_lowercase / Debug formatting are computed as the code     *)
(* computes them.  f32 readings are modelled as integers (tenths of a      *)
(* unit); sysinfo clamps cpu_usage with f32::min, which never yields NaN.  *)
(***************************************************************************)
EXTENDS Integers, Sequences, FiniteSets, TLC

VARIABLES
    os,          \* the live OS process table: a sequence of [id, cpu, uid, stopped, nice]
    sensors,     \* the host's thermal sensors, in enumeration order: [label, temp]
    snap,        \* AppState.sys: processes as of the last refresh, in iteration order
    components,  \* AppState.sys: components as of the last refresh_components
    holder,      \* owner of the AppState.sys mutex, or NoThread
    pc,          \* each request handler's position
    arg,         \* each request handler's arguments: [pid, tier]
    resp,        \* each request handler's result
    euid0,       \* whether the backend runs as the superuser
    home,        \* $HOME
    dirs,        \* directories that exist
    files,       \* files that exist (absolute paths)
    apps,        \* the last Vec<StartupApp> handed to the front end
    toggled,     \* the last toggle_startup call and what it met
    firstListed, \* names of the autostart entries listed at start
    lastEnable   \* per entry name: the enable argument of the last toggle applied to it

vars == <<os, sensors, snap, components, holder, pc, arg, resp, euid0,
          home, dirs, files, apps, toggled, firstListed, lastEnable>>

engineVars == <<os, sensors, snap, components, holder, pc, arg, resp, euid0>>
startupVars == <<home, dirs, files, apps, toggled, firstListed, lastEnable>>

----------------------------------------------------------------------------
(* Strings *)

\* str::starts_with
StartsWith(s, p) ==
    /\ Len(p) <= Len(s)
    /\ SubSeq(s, 1, Len(p)) = p

\* str::ends_with
EndsWith(s, p) ==
    /\ Len(p) <= Len(s)
    /\ SubSeq(s, Len(s) - Len(p) + 1, Len(s)) = p

\* str::contains
Contains(s, p) ==
    \E i \in 0..(Len(s) - Len(p)) : SubSeq(s, i + 1, i + Len(p)) = p

\* str::replace: every non-overlapping match, left to right
RECURSIVE Replace(_, _, _)
Replace(s, from, to) ==
    IF Len(s) < Len(from) THEN s
    ELSE IF StartsWith(s, from)
         THEN to \o Replace(SubSeq(s, Len(from) + 1, Len(s)), from, to)
         ELSE <<s[1]>> \o Replace(Tail(s), from, to)

\* char::to_lowercase on the letters the model's labels use
LowerChar(c) ==
    CASE c = "C" -> "c"
      [] c = "G" -> "g"
      [] c = "P" -> "p"
      [] c = "U" -> "u"
      [] c = "T" -> "t"
      [] OTHER -> c

\* str::to_lowercase
ToLowercase(s) == [i \in 1..Len(s) |-> LowerChar(s[i])]

\* position of the last "/" of a path (0 when it has none)
RECURSIVE LastSlash(_, _)
LastSlash(s, i) ==
    IF i = 0 THEN 0
    ELSE IF s[i] = "/" THEN i ELSE LastSlash(s, i - 1)

\* Path::parent and Path::file_name
ParentOf(p) == SubSeq(p, 1, LastSlash(p, Len(p)) - 1)
FileNameOf(p) == SubSeq(p, LastSlash(p, Len(p)) + 1, Len(p))

DotDesktop == <<".", "d", "e", "s", "k", "t", "o", "p">>
DotDesktopBak == <<".", "d", "e", "s", "k", "t", "o", "p", ".", "b", "a", "k">>
DotBak == <<".", "b", "a", "k">>

----------------------------------------------------------------------------
(* Autostart inspector *)

\* format!("{}/.config/autostart", home)
AutostartDir(h) ==
    h \o <<"/", ".", "c", "o", "n", "f", "i", "g", "/", "a", "u", "t", "o", "s", "t", "a", "r", "t">>

\* entry.path()
EntryPath(dir, fname) == dir \o <<"/">> \o fname

\* fs::read_dir(path): the file names in the directory, or none when it is missing
ReadDir(ds, fs, dir) ==
    IF dir \in ds THEN {FileNameOf(f) : f \in {g \in fs : ParentOf(g) = dir}} ELSE {}

\* the body of get_startup_apps' loop for one directory entry
StartupEntry(dir, fname) ==
    IF EndsWith(fname, DotDesktop)
    THEN {[name |-> Replace(fname, DotDesktop, <<>>),
           path |-> EntryPath(dir, fname), enabled |-> TRUE]}
    ELSE IF EndsWith(fname, DotDesktopBak)
    THEN {[name |-> Replace(fname, DotDesktopBak, <<>>),
           path |-> EntryPath(dir, fname), enabled |-> FALSE]}
    ELSE {}

\* get_startup_apps' result.  read_dir yields the entries in no particular
\* order; the Vec is modelled by the set of its elements.
ListStartup(h, ds, fs) ==
    UNION {StartupEntry(AutostartDir(h), fname) : fname \in ReadDir(ds, fs, AutostartDir(h))}

\* toggle_startup's new_path
NewPath(path, enable) ==
    IF enable
    THEN Replace(path, DotDesktopBak, DotDesktop)
    ELSE Replace(path, DotDesktop, DotDesktopBak)

\* fs::rename(from, to).is_ok(): the source exists and the target's directory exists
RenameOk(ds, fs, from, to) == from \in fs /\ ParentOf(to) \in ds

\* the files after fs::rename(from, to): the target is replaced
RenameFiles(ds, fs, from, to) ==
    IF RenameOk(ds, fs, from, to) THEN (fs \ {from}) \cup {to} ELSE fs

NoToggle ==
    [called |-> FALSE, path |-> <<>>, enable |-> FALSE, listed |-> FALSE,
     name |-> <<>>, wasEnabled |-> FALSE, ret |-> FALSE]

Homes == {<<"/", "h">>, <<"/", "h", ".", "d", "e", "s", "k", "t", "o", "p">>}

FileNames ==
    {<<"a", ".", "d", "e", "s", "k", "t", "o", "p">>,
     <<"b", ".", "d", "e", "s", "k", "t", "o", "p", ".", "b", "a", "k">>,
     <<"c", ".", "d", "e", "s", "k", "t", "o", "p">>,
     <<"n", "o", "t", "e", "s", ".", "t", "x", "t">>}

get_startup_apps ==
    /\ apps' = ListStartup(home, dirs, files)
    /\ UNCHANGED <<home, dirs, files, toggled, firstListed, lastEnable>>
    /\ UNCHANGED engineVars

\* toggle_startup(path, enable), called with a path of the last listing
toggle_startup(path, enable) ==
    LET now == ListStartup(home, dirs, files)
        hit == {a \in now : a.path = path}
        new_path == NewPath(path, enable)
    IN  /\ files' = RenameFiles(dirs, files, path, new_path)
        /\ toggled' =
             IF hit = {}
             THEN [NoToggle EXCEPT !.called = TRUE, !.path = path, !.enable = enable,
                                   !.ret = RenameOk(dirs, files, path, new_path)]
             ELSE LET a == CHOOSE x \in hit : TRUE
                  IN  [called |-> TRUE, path |-> path, enable |-> enable, listed |-> TRUE,
                       name |-> a.name, wasEnabled |-> a.enabled,
                       ret |-> RenameOk(dirs, files, path, new_path)]
        /\ lastEnable' =
             [n \in DOMAIN lastEnable |->
                IF \E a \in hit : a.name = n THEN enable ELSE lastEnable[n]]
        /\ UNCHANGED <<home, dirs, apps, firstListed>>
        /\ UNCHANGED engineVars

----------------------------------------------------------------------------
(* The OS process table *)

NoUid == [some |-> FALSE, id |-> 0]
Uid(n) == [some |-> TRUE, id |-> n]

OsPids(table) == {table[i].id : i \in DOMAIN table}
OsProc(table, pid) == table[CHOOSE i \in DOMAIN table : table[i].id = pid]

\* the table without the process pid
RECURSIVE Without(_, _)
Without(table, pid) ==
    IF table = <<>> THEN <<>>
    ELSE IF Head(table).id = pid THEN Without(Tail(table), pid)
         ELSE <<Head(table)>> \o Without(Tail(table), pid)

\* kill(2): the table after signal sig reaches pid
Deliver(table, sig, pid) ==
    CASE sig = "SIGKILL" -> Without(table, pid)
      [] sig = "SIGSTOP" ->
           [i \in DOMAIN table |->
              IF table[i].id = pid THEN [table[i] EXCEPT !.stopped = TRUE] ELSE table[i]]
      [] sig = "SIGCONT" ->
           [i \in DOMAIN table |->
              IF table[i].id = pid THEN [table[i] EXCEPT !.stopped = FALSE] ELSE table[i]]

\* setpriority(2) as renice uses it: anyone may raise a nice value, only the
\* superuser may lower it
ReniceOk(table, pid, val, root) ==
    /\ pid \in OsPids(table)
    /\ (root \/ val >= OsProc(table, pid).nice)

Renice(table, pid, val, root) ==
    IF ReniceOk(table, pid, val, root)
    THEN [i \in DOMAIN table |->
            IF table[i].id = pid THEN [table[i] EXCEPT !.nice = val] ELSE table[i]]
    ELSE table

\* a process starts (pids are reused once free)
OsSpawn(pid, cpu, uid) ==
    /\ pid \notin OsPids(os)
    /\ os' = Append(os, [id |-> pid, cpu |-> cpu, uid |-> uid, stopped |-> FALSE, nice |-> 0])
    /\ UNCHANGED <<sensors, snap, components, holder, pc, arg, resp, euid0>>
    /\ UNCHANGED startupVars

\* a process exits on its own
OsExit(pid) ==
    /\ pid \in OsPids(os)
    /\ os' = Without(os, pid)
    /\ UNCHANGED <<sensors, snap, components, holder, pc, arg, resp, euid0>>
    /\ UNCHANGED startupVars

\* the scheduler moves on: every process's cpu usage changes
OsSchedule(stride, offset, modulus) ==
    /\ os' = [i \in DOMAIN os |-> [os[i] EXCEPT !.cpu = (i * stride + offset) % modulus]]
    /\ os' /= os
    /\ UNCHANGED <<sensors, snap, components, holder, pc, arg, resp, euid0>>
    /\ UNCHANGED startupVars

----------------------------------------------------------------------------
(* The snapshot (AppState.sys) and what the commands derive from it *)

NoThread == "none"
NoArg == [pid |-> 0, tier |-> ""]
NoResp == [ok |-> FALSE, procs |-> <<>>, cpu_temp |-> 0, root_procs |-> 0,
           found |-> FALSE, sent |-> FALSE, val |-> 0]

\* sys.refresh_processes(): the process map is rebuilt from the OS table
RefreshProcesses(table) ==
    [i \in DOMAIN table |-> [id |-> table[i].id, cpu |-> table[i].cpu, uid |-> table[i].uid]]

\* a lookup in the live process table instead of the snapshot
SnapshotHasLive(pid) == pid \in OsPids(os)

\* sys.process(pid).is_some()
SnapshotHas(pid) == \E i \in DOMAIN snap : snap[i].id = pid

Min(a, b) == IF a <= b THEN a ELSE b

\* the unsorted list, as a missing sort_by would leave it
Unsorted(s) == s

\* procs.sort_by(|a, b| b.cpu.partial_cmp(&a.cpu)...): a stable sort, cpu
\* descending.  A stable sort has one result: each element lands behind every
\* element of greater cpu and behind the earlier elements of equal cpu.
SortByCpuDesc(s) ==
    LET place == [i \in DOMAIN s |->
                    Cardinality({j \in DOMAIN s : s[j].cpu > s[i].cpu})
                    + Cardinality({j \in 1..i : s[j].cpu = s[i].cpu})]
        from == [k \in DOMAIN s |-> CHOOSE i \in DOMAIN s : place[i] = k]
    IN  [k \in DOMAIN s |-> s[from[k]]]

\* .take(60)
TakeLimit == 60

\* the ProcInfo built for one process (name, user, status and mem are not modelled)
ProcInfo(p) == [id |-> p.id, cpu |-> p.cpu]

\* get_processes' result for a snapshot
ProcessList(s) ==
    LET procs == SortByCpuDesc([i \in DOMAIN s |-> ProcInfo(s[i])])
    IN  SubSeq(procs, 1, Min(TakeLimit, Len(procs)))

\* the test of get_system_stats' loop on one component label
IsCpuLabel(l) ==
    LET label == ToLowercase(l)
    IN  \/ Contains(label, <<"c", "p", "u">>)
        \/ Contains(label, <<"c", "o", "r", "e">>)
        \/ Contains(label, <<"p", "a", "c", "k", "a", "g", "e">>)

\* get_system_stats' cpu_t: the first matching component's temperature, else 0.0
RECURSIVE CpuTemp(_)
CpuTemp(comps) ==
    IF comps = <<>> THEN 0
    ELSE IF IsCpuLabel(Head(comps).label) THEN Head(comps).temp
         ELSE CpuTemp(Tail(comps))

DigitChars == <<"0", "1", "2", "3", "4", "5", "6", "7", "8", "9">>

\* a number's decimal digits, as {} prints it
RECURSIVE Decimal(_)
Decimal(n) ==
    IF n < Len(DigitChars) THEN <<DigitChars[n + 1]>>
    ELSE Decimal(n \div Len(DigitChars)) \o <<DigitChars[(n % Len(DigitChars)) + 1]>>

\* format!("{:?}", p.user_id()) for an Option<&Uid>
DebugUserId(uid) ==
    IF uid.some
    THEN <<"S", "o", "m", "e", "(", "U", "i", "d", "(">> \o Decimal(uid.id) \o <<")", ")">>
    ELSE <<"N", "o", "n", "e">>

\* get_security_audit's root_count
RootCount(s) ==
    Cardinality({i \in DOMAIN s : Contains(DebugUserId(s[i].uid), <<"0">>)})

\* a match that names "Normal" and sends every other string to the last arm
PriorityValNamedNormal(priority) ==
    CASE priority = "High" -> -10
      [] priority = "Normal" -> 0
      [] OTHER -> 10

\* set_process_priority's val
PriorityVal(priority) ==
    CASE priority = "High" -> -10
      [] priority = "Low" -> 10
      [] OTHER -> 0

----------------------------------------------------------------------------
(* The commands.  A handler that takes the snapshot lock keeps it until it *)
(* returns (the MutexGuard is dropped at the end of the function).        *)

Threads == {"t1", "t2"}

\* a handler that does not wait for the mutex
LockIgnored == TRUE

\* state.sys.lock(): the mutex is free
CanLock == holder = NoThread

Goto(t, where) == pc' = [pc EXCEPT ![t] = where]

\* get_processes: let mut sys = state.sys.lock().unwrap()
get_processes_lock(t) ==
    /\ pc[t] = "idle"
    /\ CanLock
    /\ holder' = t
    /\ Goto(t, "gp_locked")
    /\ UNCHANGED <<os, sensors, snap, components, arg, resp, euid0>>
    /\ UNCHANGED startupVars

\* get_processes: sys.refresh_processes()
get_processes_refresh(t) ==
    /\ pc[t] = "gp_locked"
    /\ snap' = RefreshProcesses(os)
    /\ Goto(t, "gp_mid")
    /\ UNCHANGED <<os, sensors, components, holder, arg, resp, euid0>>
    /\ UNCHANGED startupVars

\* get_processes: sys.refresh_cpu(), then the loop, the sort and take(60)
get_processes_list(t) ==
    /\ pc[t] = "gp_mid"
    /\ resp' = [resp EXCEPT ![t] = [NoResp EXCEPT !.ok = TRUE, !.procs = ProcessList(snap)]]
    /\ Goto(t, "gp_exit")
    /\ UNCHANGED <<os, sensors, snap, components, holder, arg, euid0>>
    /\ UNCHANGED startupVars

\* get_system_stats: let mut sys = state.sys.lock().unwrap()
get_system_stats_lock(t) ==
    /\ pc[t] = "idle"
    /\ CanLock
    /\ holder' = t
    /\ Goto(t, "ss_locked")
    /\ UNCHANGED <<os, sensors, snap, components, arg, resp, euid0>>
    /\ UNCHANGED startupVars

\* get_system_stats: refresh_cpu, refresh_memory, refresh_networks (no modelled field)
get_system_stats_refresh(t) ==
    /\ pc[t] = "ss_locked"
    /\ Goto(t, "ss_mid")
    /\ UNCHANGED <<os, sensors, snap, components, holder, arg, resp, euid0>>
    /\ UNCHANGED startupVars

\* get_system_stats: refresh_components, then the temperature loop and the result
get_system_stats_build(t) ==
    /\ pc[t] = "ss_mid"
    /\ components' = sensors
    /\ resp' = [resp EXCEPT ![t] = [NoResp EXCEPT !.ok = TRUE, !.cpu_temp = CpuTemp(components')]]
    /\ Goto(t, "ss_exit")
    /\ UNCHANGED <<os, sensors, snap, holder, arg, euid0>>
    /\ UNCHANGED startupVars

\* get_security_audit: let sys = state.sys.lock().unwrap()
get_security_audit_lock(t) ==
    /\ pc[t] = "idle"
    /\ CanLock
    /\ holder' = t
    /\ Goto(t, "sa_locked")
    /\ UNCHANGED <<os, sensors, snap, components, arg, resp, euid0>>
    /\ UNCHANGED startupVars

\* get_security_audit: the count over sys.processes() (no refresh)
get_security_audit_count(t) ==
    /\ pc[t] = "sa_locked"
    /\ resp' = [resp EXCEPT ![t] = [NoResp EXCEPT !.ok = TRUE, !.root_procs = RootCount(snap)]]
    /\ Goto(t, "sa_exit")
    /\ UNCHANGED <<os, sensors, snap, components, holder, arg, euid0>>
    /\ UNCHANGED startupVars

\* get_hardware_info: let sys = state.sys.lock().unwrap()
get_hardware_info_lock(t) ==
    /\ pc[t] = "idle"
    /\ CanLock
    /\ holder' = t
    /\ Goto(t, "hw_locked")
    /\ UNCHANGED <<os, sensors, snap, components, arg, resp, euid0>>
    /\ UNCHANGED startupVars

\* get_hardware_info: the lspci probe and the reads of the snapshot
get_hardware_info_probe(t) ==
    /\ pc[t] = "hw_locked"
    /\ resp' = [resp EXCEPT ![t] = [NoResp EXCEPT !.ok = TRUE]]
    /\ Goto(t, "hw_exit")
    /\ UNCHANGED <<os, sensors, snap, components, holder, arg, euid0>>
    /\ UNCHANGED startupVars

\* kill_process: let sys = state.sys.lock().unwrap()
kill_process_lock(t, pid) ==
    /\ pc[t] = "idle"
    /\ CanLock
    /\ holder' = t
    /\ arg' = [arg EXCEPT ![t] = [NoArg EXCEPT !.pid = pid]]
    /\ Goto(t, "kill_locked")
    /\ UNCHANGED <<os, sensors, snap, components, resp, euid0>>
    /\ UNCHANGED startupVars

\* kill_process: sys.process(pid), and process.kill() when it is there
kill_process_lookup(t) ==
    /\ pc[t] = "kill_locked"
    /\ IF SnapshotHas(arg[t].pid)
       THEN /\ os' = Deliver(os, "SIGKILL", arg[t].pid)
            /\ resp' = [resp EXCEPT ![t] =
                 [NoResp EXCEPT !.found = TRUE, !.sent = TRUE,
                                !.ok = arg[t].pid \in OsPids(os)]]
       ELSE /\ os' = os
            /\ resp' = [resp EXCEPT ![t] = NoResp]
    /\ Goto(t, "kill_exit")
    /\ UNCHANGED <<sensors, snap, components, holder, arg, euid0>>
    /\ UNCHANGED startupVars

\* suspend_process: kill -19 <pid>, without the snapshot
suspend_process(t, pid) ==
    /\ pc[t] = "idle"
    /\ arg' = [arg EXCEPT ![t] = [NoArg EXCEPT !.pid = pid]]
    /\ os' = Deliver(os, "SIGSTOP", pid)
    /\ resp' = [resp EXCEPT ![t] = [NoResp EXCEPT !.sent = TRUE, !.ok = pid \in OsPids(os)]]
    /\ Goto(t, "susp_exit")
    /\ UNCHANGED <<sensors, snap, components, holder, euid0>>
    /\ UNCHANGED startupVars

\* resume_process: kill -18 <pid>, without the snapshot
resume_process(t, pid) ==
    /\ pc[t] = "idle"
    /\ arg' = [arg EXCEPT ![t] = [NoArg EXCEPT !.pid = pid]]
    /\ os' = Deliver(os, "SIGCONT", pid)
    /\ resp' = [resp EXCEPT ![t] = [NoResp EXCEPT !.sent = TRUE, !.ok = pid \in OsPids(os)]]
    /\ Goto(t, "res_exit")
    /\ UNCHANGED <<sensors, snap, components, holder, euid0>>
    /\ UNCHANGED startupVars

\* set_process_priority: renice -n <val> -p <pid>, without the snapshot
set_process_priority(t, pid, priority) ==
    /\ pc[t] = "idle"
    /\ arg' = [arg EXCEPT ![t] = [pid |-> pid, tier |-> priority]]
    /\ os' = Renice(os, pid, PriorityVal(priority), euid0)
    /\ resp' = [resp EXCEPT ![t] =
         [NoResp EXCEPT !.sent = TRUE, !.val = PriorityVal(priority),
                        !.ok = ReniceOk(os, pid, PriorityVal(priority), euid0)]]
    /\ Goto(t, "prio_exit")
    /\ UNCHANGED <<sensors, snap, components, holder, euid0>>
    /\ UNCHANGED startupVars

ExitPcs == {"gp_exit", "ss_exit", "sa_exit", "hw_exit", "kill_exit",
            "susp_exit", "res_exit", "prio_exit"}

\* the handler returns: its guard, if it holds one, is dropped
Return(t) ==
    /\ pc[t] \in ExitPcs
    /\ holder' = IF holder = t THEN NoThread ELSE holder
    /\ Goto(t, "idle")
    /\ arg' = [arg EXCEPT ![t] = NoArg]
    /\ resp' = [resp EXCEPT ![t] = NoResp]
    /\ UNCHANGED <<os, sensors, snap, components, euid0>>
    /\ UNCHANGED startupVars

----------------------------------------------------------------------------
(* Specifications *)

\* no autostart directory in play
StartupIdle ==
    /\ home = <<>>
    /\ dirs = {}
    /\ files = {}
    /\ apps = {}
    /\ toggled = NoToggle
    /\ firstListed = {}
    /\ lastEnable = <<>>

\* the handlers at rest, over a snapshot taken by main's refresh_all()
EngineStart(table, sens, root) ==
    /\ os = table
    /\ sensors = sens
    /\ snap = RefreshProcesses(table)
    /\ components = sens
    /\ holder = NoThread
    /\ pc = [t \in Threads |-> "idle"]
    /\ arg = [t \in Threads |-> NoArg]
    /\ resp = [t \in Threads |-> NoResp]
    /\ euid0 = root

MaxPid == 2
Pids == 1..MaxPid

PackageSensor ==
    [label |-> <<"P", "a", "c", "k", "a", "g", "e", " ", "i", "d", " ", "0">>, temp |-> 655]

\* Concurrent request handlers over a small process table
Init ==
    /\ EngineStart(<<>>, <<PackageSensor>>, FALSE)
    /\ StartupIdle

Next ==
    \/ \E pid \in Pids : OsSpawn(pid, 0, Uid(1000))
    \/ \E pid \in Pids : OsExit(pid)
    \/ \E t \in Threads :
         \/ get_processes_lock(t)
         \/ get_processes_refresh(t)
         \/ get_processes_list(t)
         \/ get_system_stats_lock(t)
         \/ get_system_stats_refresh(t)
         \/ get_system_stats_build(t)
         \/ get_security_audit_lock(t)
         \/ get_security_audit_count(t)
         \/ get_hardware_info_lock(t)
         \/ get_hardware_info_probe(t)
         \/ \E pid \in Pids : kill_process_lock(t, pid)
         \/ kill_process_lookup(t)
         \/ \E pid \in Pids : suspend_process(t, pid)
         \/ \E pid \in Pids : resume_process(t, pid)
         \/ \E pid \in Pids : set_process_priority(t, pid, "Realtime")
         \/ Return(t)

Spec == Init /\ [][Next]_vars

MaxProcs == 62
Strides == {0, 1, 7}
Moduli == {3, 1000}

\* a process table of n processes whose cpu usage follows a pattern
Table(n, stride, offset, modulus) ==
    [i \in 1..n |-> [id |-> i, cpu |-> (i * stride + offset) % modulus,
                     uid |-> Uid(1000), stopped |-> FALSE, nice |-> 0]]

\* One handler listing process tables of every size around take(60)
InitList ==
    /\ \E n \in 0..MaxProcs : \E stride \in Strides : \E modulus \in Moduli :
         EngineStart(Table(n, stride, 0, modulus), <<>>, FALSE)
    /\ StartupIdle

NextList ==
    \/ \E stride \in Strides : \E modulus \in Moduli : OsSchedule(stride, 1, modulus)
    \/ get_processes_lock("t1")
    \/ get_processes_refresh("t1")
    \/ get_processes_list("t1")
    \/ Return("t1")

SpecList == InitList /\ [][NextList]_vars

MaxSensors == 2
Labels ==
    {<<"G", "P", "U", " ", "C", "o", "r", "e">>,
     <<"P", "a", "c", "k", "a", "g", "e", " ", "i", "d", " ", "0">>,
     <<"a", "c", "p", "i", "t", "z">>,
     <<"n", "v", "m", "e", " ", "C", "o", "m", "p", "o", "s", "i", "t", "e">>,
     <<"C", "P", "U">>}
Temps == {0, 400, 655}
Sensor == [label : Labels, temp : Temps]
SensorLists == UNION {[1..n -> Sensor] : n \in 0..MaxSensors}

\* One handler reading the temperature of every small sensor set
InitStats ==
    /\ \E sens \in SensorLists : EngineStart(<<>>, sens, FALSE)
    /\ StartupIdle

NextStats ==
    \/ get_system_stats_lock("t1")
    \/ get_system_stats_refresh("t1")
    \/ get_system_stats_build("t1")
    \/ Return("t1")

SpecStats == InitStats /\ [][NextStats]_vars

Uids == {NoUid, Uid(0), Uid(1), Uid(10), Uid(25), Uid(100), Uid(1000)}

\* One handler auditing processes of every owner
InitAudit ==
    /\ EngineStart(<<>>, <<>>, FALSE)
    /\ StartupIdle

NextAudit ==
    \/ \E pid \in Pids : \E uid \in Uids : OsSpawn(pid, 0, uid)
    \/ \E pid \in Pids : OsExit(pid)
    \/ get_processes_lock("t1")
    \/ get_processes_refresh("t1")
    \/ get_processes_list("t1")
    \/ get_security_audit_lock("t1")
    \/ get_security_audit_count("t1")
    \/ Return("t1")

SpecAudit == InitAudit /\ [][NextAudit]_vars

RecognizedTiers == {"High", "Normal", "Low"}
Tiers == RecognizedTiers \cup {"Realtime", "high", ""}

\* One handler setting priorities, as the superuser or not
InitPrio ==
    /\ \E root \in BOOLEAN : EngineStart(<<>>, <<>>, root)
    /\ StartupIdle

NextPrio ==
    \/ \E pid \in Pids : OsSpawn(pid, 0, Uid(1000))
    \/ \E pid \in Pids : OsExit(pid)
    \/ \E pid \in Pids : \E tier \in Tiers : set_process_priority("t1", pid, tier)
    \/ Return("t1")

SpecPrio == InitPrio /\ [][NextPrio]_vars

\* The autostart directory under each home, with every subset of the files
InitStartup ==
    /\ EngineStart(<<>>, <<>>, FALSE)
    /\ \E h \in Homes : \E names \in SUBSET FileNames :
         /\ home = h
         /\ dirs = {AutostartDir(h)}
         /\ files = {EntryPath(AutostartDir(h), f) : f \in names}
    /\ apps = {}
    /\ toggled = NoToggle
    /\ firstListed = {a.name : a \in ListStartup(home, dirs, files)}
    /\ lastEnable = [n \in firstListed |->
                       (CHOOSE a \in ListStartup(home, dirs, files) : a.name = n).enabled]

NextStartup ==
    \/ get_startup_apps
    \/ \E a \in apps : \E enable \in BOOLEAN : toggle_startup(a.path, enable)

SpecStartup == InitStartup /\ [][NextStartup]_vars

----------------------------------------------------------------------------
(* Properties *)

SnapPids == {snap[i].id : i \in DOMAIN snap}

\* C1: when get_processes returns, its list has min(60, number of processes
\* in the snapshot) entries, each a distinct process of the snapshot with its
\* cpu value, in non-increasing cpu order, and no process left out has a cpu
\* value strictly greater than a listed one.
C1_TopSixtyByCpu ==
    \A t \in Threads :
        pc[t] = "gp_exit" =>
            LET L == resp[t].procs
                ids == {L[i].id : i \in DOMAIN L}
            IN  /\ Len(L) = (IF Len(snap) < TakeLimit THEN Len(snap) ELSE TakeLimit)
                /\ \A i \in 1..(Len(L) - 1) : L[i].cpu >= L[i + 1].cpu
                /\ Cardinality(ids) = Len(L)
                /\ \A i \in DOMAIN L :
                     \E j \in DOMAIN snap : snap[j].id = L[i].id /\ snap[j].cpu = L[i].cpu
                /\ \A j \in DOMAIN snap :
                     snap[j].id \notin ids => \A i \in DOMAIN L : snap[j].cpu <= L[i].cpu

\* C1's case: more than 60 processes, distinct cpu values in the list, and a
\* tie across the cut (a process left out equals the last one listed)
C1_Witness ==
    \E t \in Threads :
        /\ pc[t] = "gp_exit"
        /\ Len(snap) > TakeLimit
        /\ Len(resp[t].procs) = TakeLimit
        /\ resp[t].procs[1].cpu > resp[t].procs[TakeLimit].cpu
        /\ \E j \in DOMAIN snap :
             /\ snap[j].id \notin {resp[t].procs[i].id : i \in DOMAIN resp[t].procs}
             /\ snap[j].cpu = resp[t].procs[TakeLimit].cpu

GpuCore == <<"G", "P", "U", " ", "C", "o", "r", "e">>
PackageId0 == <<"P", "a", "c", "k", "a", "g", "e", " ", "i", "d", " ", "0">>

\* C2: when get_system_stats returns over the sensors ["GPU Core", "Package
\* id 0"] in that order, cpu_temp is the package sensor's reading (65.5 for
\* the readings [40.0, 65.5]), never the GPU sensor's.
C2_PackageBeatsGpuCore ==
    \A t \in Threads :
        (/\ pc[t] = "ss_exit"
         /\ Len(components) = 2
         /\ components[1].label = GpuCore
         /\ components[2].label = PackageId0)
        => resp[t].cpu_temp = components[2].temp

\* C3: when no sensor label matches (or there is no sensor), the cpu_temp that
\* get_system_stats returns differs from the one it returns for a matching
\* sensor that reads 0.0.
C3_NoMatchIsNotAReading ==
    \A t \in Threads :
        (/\ pc[t] = "ss_exit"
         /\ \A i \in DOMAIN components : ~IsCpuLabel(components[i].label))
        => resp[t].cpu_temp /= CpuTemp(<<[label |-> <<"C", "P", "U">>, temp |-> 0]>>)

\* the path with the ".bak" suffix added (disable) or stripped (enable)
SuffixToggled(path, enable) ==
    IF enable THEN SubSeq(path, 1, Len(path) - Len(DotBak)) ELSE path \o DotBak

\* C4: after toggle_startup(P, e) on a listed entry whose enabled flag is not
\* e, the file is at exactly P with ".bak" added (e false) or stripped (e
\* true), no longer at P, and the listing reports the same name with
\* enabled = e and that path.
C4_ToggleRenamesBySuffix ==
    (toggled.called /\ toggled.listed /\ toggled.wasEnabled /= toggled.enable)
    => LET Q == SuffixToggled(toggled.path, toggled.enable)
       IN  /\ toggled.ret
           /\ toggled.path \notin files
           /\ Q \in files
           /\ [name |-> toggled.name, path |-> Q, enabled |-> toggled.enable]
                \in ListStartup(home, dirs, files)

InSection(t) ==
    pc[t] \in {"gp_locked", "gp_mid", "gp_exit", "ss_locked", "ss_mid", "ss_exit",
               "sa_locked", "sa_exit", "hw_locked", "hw_exit", "kill_locked", "kill_exit"}

\* C5: at most one of get_processes, get_system_stats, get_security_audit,
\* get_hardware_info and kill_process is between its lock() and its return at
\* any time, and the one that is there holds the snapshot lock.
C5_OneInSnapshotSection ==
    /\ Cardinality({t \in Threads : InSection(t)}) <= 1
    /\ \A t \in Threads : InSection(t) => holder = t

\* C5's case: a get_processes refresh is under way while the other handler,
\* with a process to look up in the snapshot, has not entered
C5_Witness ==
    \E t \in Threads : \E u \in Threads \ {t} :
        /\ pc[t] = "gp_mid"
        /\ holder = t
        /\ pc[u] = "idle"
        /\ SnapPids /= {}

RefreshInProgress == \E u \in Threads : pc[u] \in {"gp_mid", "ss_mid"}

\* C6: no actuator (kill_process, suspend_process, resume_process,
\* set_process_priority) has its signal or priority change accepted by the
\* OS for a live process while a get_processes or get_system_stats refresh is
\* in progress.
C6_NoActuationDuringRefresh ==
    [][\A t \in Threads :
         (/\ pc'[t] \in {"kill_exit", "susp_exit", "res_exit", "prio_exit"}
          /\ pc[t] /= pc'[t]
          /\ resp'[t].sent
          /\ resp'[t].ok)
         => ~RefreshInProgress]_vars

\* C7: kill_process(pid) for a pid absent from the snapshot returns false,
\* sends no signal, and changes neither the OS processes nor the snapshot,
\* whether or not a live process has that pid.
C7_AbsentPidKillIsNoop ==
    [][\A t \in Threads :
         (/\ pc[t] = "kill_locked"
          /\ pc'[t] /= pc[t]
          /\ arg[t].pid \notin SnapPids)
         => /\ pc'[t] = "kill_exit"
            /\ resp'[t].ok = FALSE
            /\ resp'[t].sent = FALSE
            /\ os' = os
            /\ snap' = snap]_vars

\* C7's case: kill_process has answered false for a pid that is not in the
\* snapshot although a live process has it
C7_Witness ==
    \E t \in Threads :
        /\ pc[t] = "kill_exit"
        /\ arg[t].pid \notin SnapPids
        /\ arg[t].pid \in OsPids(os)
        /\ ~resp[t].ok
        /\ ~resp[t].sent

\* C8: root_procs, when get_security_audit returns, is the number of
\* snapshot processes owned by user id 0.
C8_RootProcsCountsUidZero ==
    \A t \in Threads :
        pc[t] = "sa_exit" =>
            resp[t].root_procs = Cardinality({i \in DOMAIN snap : snap[i].uid = Uid(0)})

\* C9: set_process_priority with a tier other than "High", "Normal", "Low"
\* applies the value 0 and has the result and the effect on the process that
\* tier "Normal" has for the same pid and OS state.
C9_UnknownTierIsNormal ==
    [][\A t \in Threads : \A tier \in Tiers \ RecognizedTiers : \A pid \in Pids :
         set_process_priority(t, pid, tier)
         => /\ resp'[t].val = 0
            /\ resp'[t].ok = ReniceOk(os, pid, 0, euid0)
            /\ os' = Renice(os, pid, 0, euid0)
            /\ \A other \in OsPids(os) \ {pid} : OsProc(os', other) = OsProc(os, other)]_vars

\* C9's case: an unrecognized tier was refused, as "Normal" would be, on a
\* live process whose priority had been lowered, the caller not being root
C9_Witness ==
    \E t \in Threads :
        /\ pc[t] = "prio_exit"
        /\ arg[t].tier \notin RecognizedTiers
        /\ ~euid0
        /\ ~resp[t].ok
        /\ arg[t].pid \in OsPids(os)
        /\ OsProc(os, arg[t].pid).nice > 0

\* C10: every autostart entry listed at the start is still listed under its
\* name, with enabled equal to the enable argument of the last toggle_startup
\* applied to it through a currently listed path.
C10_EntriesKeptWithLastToggle ==
    \A n \in firstListed :
        \E a \in ListStartup(home, dirs, files) : a.name = n /\ a.enabled = lastEnable[n]

====
